---------------------------- MODULE Spec2Model ----------------------------
(***************************************************************************)
(* A model of actual-ical (src/src/ical.ts): the failure classifier, the   *)
(* schedule fetch with its single cache-clearing retry, the uncaught-      *)
(* exception safety net and the weekend adjustment of projected dates.     *)
(*                                                                         *)
(* Texts are TLA+ strings; TLC evaluates Len, \o and SubSeq on them, so    *)
(* String.prototype.includes and toLowerCase are modelled character by     *)
(* character.  A JavaScript string that is empty is falsy, which is how    *)
(* the source tests the presence of a property; "" stands for a property   *)
(* that is absent, empty or not a string.                                  *)
(***************************************************************************)
EXTENDS Integers, Sequences, FiniteSets, TLC

(***************************************************************************)
(* Text helpers                                                            *)
(***************************************************************************)

\* String.prototype.includes(keyword)
Includes(text, keyword) ==
    \E i \in 1..(Len(text) + 1 - Len(keyword)) :
        SubSeq(text, i, i + Len(keyword) - 1) = keyword

UpperChars == "ABCDEFGHIJKLMNOPQRSTUVWXYZ"

LowerChars == "abcdefghijklmnopqrstuvwxyz"

LowerChar(ch) ==
    IF \E i \in 1..Len(UpperChars) : SubSeq(UpperChars, i, i) = ch
    THEN LET i == CHOOSE j \in 1..Len(UpperChars) : SubSeq(UpperChars, j, j) = ch
         IN  SubSeq(LowerChars, i, i)
    ELSE ch

\* String.prototype.toLowerCase()
RECURSIVE toLowerCase(_)
toLowerCase(text) ==
    IF text = "" THEN ""
    ELSE LowerChar(SubSeq(text, 1, 1)) \o toLowerCase(SubSeq(text, 2, Len(text)))

(***************************************************************************)
(* Failure values.  kind "Error" is an instance of Error, "object" any     *)
(* other non-null object, "primitive" a thrown string.                     *)
(***************************************************************************)

FailureValue(kind, message, stack, reason, error, code, details, text) ==
    [kind |-> kind, message |-> message, stack |-> stack, reason |-> reason,
     error |-> error, code |-> code, details |-> details, text |-> text]

\* new Error(message): V8 starts the stack with "Error: <message>"
JsError(message, frames) ==
    FailureValue("Error", message, "Error: " \o message \o frames, "", "", "", "", "")

\* String(error)
StringOf(e) ==
    CASE e.kind = "Error"  -> IF e.message = "" THEN "Error" ELSE "Error: " \o e.message
      [] e.kind = "object" -> "[object Object]"
      [] OTHER             -> e.text

extractErrorMessage(e) ==
    IF e.kind = "Error"
    THEN IF e.message # "" THEN e.message
         ELSE IF e.stack # "" THEN e.stack
         ELSE StringOf(e)
    ELSE IF e.kind = "object"
    THEN IF e.message # "" THEN e.message
         ELSE IF e.stack # "" THEN e.stack
         ELSE IF e.reason # "" THEN e.reason
         ELSE IF e.error # "" THEN e.error
         ELSE IF e.code # "" THEN e.code
         ELSE IF e.details # "" THEN e.details
         ELSE StringOf(e)
    ELSE StringOf(e)

\* undefined is modelled as "": every caller reads it as `stack || ''`
extractErrorStack(e) ==
    IF e.kind \in {"Error", "object"} /\ e.stack # "" THEN e.stack ELSE ""

migrationKeywords ==
    << "out-of-sync-migrations", "migration", "timestamp", "database is out of sync",
       "appliedids", "available", "error updating", "migrate" >>

isMigrationError(e) ==
    LET errorMessage == toLowerCase(extractErrorMessage(e))
        errorStack   == toLowerCase(extractErrorStack(e))
        combinedText == errorMessage \o " " \o errorStack
    IN  \E k \in 1..Len(migrationKeywords) :
            Includes(combinedText, toLowerCase(migrationKeywords[k]))

\* faulty variant: the network keywords are looked for before the migration ones
categorizeErrorNetworkFirst(e) ==
    LET errorMessage == toLowerCase(extractErrorMessage(e))
        errorStack   == toLowerCase(extractErrorStack(e))
    IN  IF \/ Includes(errorMessage, "network")
           \/ Includes(errorMessage, "connection")
           \/ Includes(errorMessage, "timeout")
        THEN "NETWORK_ERROR"
        ELSE IF isMigrationError(e) THEN "MIGRATION_ERROR"
        ELSE IF \/ Includes(errorMessage, "auth")
                \/ Includes(errorMessage, "password")
                \/ Includes(errorMessage, "credential")
        THEN "AUTHENTICATION_ERROR"
        ELSE IF Includes(errorMessage, "sync") /\ Includes(errorMessage, "id")
        THEN "SYNC_ID_ERROR"
        ELSE IF /\ Includes(errorMessage, "server")
                /\ (Includes(errorMessage, "url") \/ Includes(errorMessage, "host"))
        THEN "SERVER_URL_ERROR"
        ELSE IF \/ Includes(errorStack, "download-budget")
                \/ Includes(errorStack, "downloadbudget")
                \/ Includes(errorMessage, "download-budget")
                \/ Includes(errorMessage, "downloadbudget")
        THEN "BUDGET_DOWNLOAD_ERROR"
        ELSE "UNKNOWN_ERROR"

\* faulty variant: every group is matched against message and stack together
categorizeErrorCombinedText(e) ==
    LET errorMessage == toLowerCase(extractErrorMessage(e))
        errorStack   == toLowerCase(extractErrorStack(e))
        combinedText == errorMessage \o " " \o errorStack
    IN  IF isMigrationError(e) THEN "MIGRATION_ERROR"
        ELSE IF \/ Includes(combinedText, "network")
                \/ Includes(combinedText, "connection")
                \/ Includes(combinedText, "timeout")
        THEN "NETWORK_ERROR"
        ELSE IF \/ Includes(combinedText, "auth")
                \/ Includes(combinedText, "password")
                \/ Includes(combinedText, "credential")
        THEN "AUTHENTICATION_ERROR"
        ELSE IF Includes(combinedText, "sync") /\ Includes(combinedText, "id")
        THEN "SYNC_ID_ERROR"
        ELSE IF /\ Includes(combinedText, "server")
                /\ (Includes(combinedText, "url") \/ Includes(combinedText, "host"))
        THEN "SERVER_URL_ERROR"
        ELSE IF \/ Includes(combinedText, "download-budget")
                \/ Includes(combinedText, "downloadbudget")
        THEN "BUDGET_DOWNLOAD_ERROR"
        ELSE "UNKNOWN_ERROR"

categorizeError(e) ==
    LET errorMessage == toLowerCase(extractErrorMessage(e))
        errorStack   == toLowerCase(extractErrorStack(e))
    IN  IF isMigrationError(e) THEN "MIGRATION_ERROR"
        ELSE IF \/ Includes(errorMessage, "network")
                \/ Includes(errorMessage, "connection")
                \/ Includes(errorMessage, "timeout")
        THEN "NETWORK_ERROR"
        ELSE IF \/ Includes(errorMessage, "auth")
                \/ Includes(errorMessage, "password")
                \/ Includes(errorMessage, "credential")
        THEN "AUTHENTICATION_ERROR"
        ELSE IF Includes(errorMessage, "sync") /\ Includes(errorMessage, "id")
        THEN "SYNC_ID_ERROR"
        ELSE IF /\ Includes(errorMessage, "server")
                /\ (Includes(errorMessage, "url") \/ Includes(errorMessage, "host"))
        THEN "SERVER_URL_ERROR"
        ELSE IF \/ Includes(errorStack, "download-budget")
                \/ Includes(errorStack, "downloadbudget")
                \/ Includes(errorMessage, "download-budget")
                \/ Includes(errorMessage, "downloadbudget")
        THEN "BUDGET_DOWNLOAD_ERROR"
        ELSE "UNKNOWN_ERROR"

(***************************************************************************)
(* Failure values the environment can produce.                             *)
(***************************************************************************)

NoFailure == FailureValue("none", "", "", "", "", "", "", "")

\* "Error updating Error: out-of-sync-migrations" (the log quoted at src/src/ical.ts:86)
ErrMigration == JsError("out-of-sync-migrations", " at updateVersion (update.js)")

ErrNetwork == JsError("Network request failed", " at fetch (post.js)")

ErrAuthentication == JsError("Invalid password", " at init (api.js)")

ErrSyncId == JsError("Sync ID not found", " at loadBudget (api.js)")

ErrServerUrl == JsError("Invalid server URL", " at init (api.js)")

ErrBudgetDownload == JsError("Could not load budget", " at downloadBudget (api.js)")

ErrUnknown == JsError("boom", " at run (api.js)")

\* what init, downloadBudget and runQuery can reject with
BackendErrors ==
    { ErrMigration, ErrNetwork, ErrAuthentication, ErrSyncId, ErrServerUrl,
      ErrBudgetDownload, ErrUnknown }

\* what can reach process.on('uncaughtException')
UncaughtErrors == { ErrMigration, ErrUnknown }

\* what rmSync and mkdirSync throw
RmError == JsError("EACCES: permission denied, rmdir '.actual-cache'", " at rmSync (node:fs)")

MkdirError == JsError("EACCES: permission denied, mkdir '.actual-cache'", " at mkdirSync (node:fs)")

\* Every failure value of the fetch protocol with what the catch block computes
\* from it (errorMessage, migrationErrorDetected, errorCategory), evaluated once.
KnownFailures == BackendErrors \cup UncaughtErrors \cup {RmError, MkdirError}

Diagnosed ==
    { [error |-> e,
       errorMessage |-> extractErrorMessage(e),
       migrationErrorDetected |-> isMigrationError(e),
       errorCategory |-> categorizeError(e)] : e \in KnownFailures }

Diagnosis(e) == CHOOSE d \in Diagnosed : d.error = e

(***************************************************************************)
(* Bounds                                                                  *)
(***************************************************************************)

\* top-level getSchedules() calls (feed requests) that may be in flight together
NumCalls == 2

\* uncaught exceptions delivered to the safety net
MaxUncaught == 1

Calls == 1..NumCalls

(***************************************************************************)
(* State                                                                   *)
(***************************************************************************)

VARIABLES
    CLEAR_CACHE_ON_ERROR,       \* the environment setting, a string
    isHandlingMigrationError,   \* the module-level guard flag
    cache,                      \* the directory ACTUAL_PATH: [exists, populated]
    call,                       \* per getSchedules() call: pc, retryOnMigrationError,
                                \*   ops (its catches, cache clears and calls of
                                \*   actualApi.init, in program order), errors (the
                                \*   failures its catch blocks received), result
    uncaught,                   \* the safety net: count (exceptions delivered), last
                                \*   (the failure of the latest), ops (what it then did),
                                \*   raised (what the handler threw)
    failure,                    \* classifier check: the failure value classified
    category,                   \* classifier check: the result of categorizeError
    date,                       \* weekend check: the projected date, a day number
    recurringData,              \* weekend check: skipWeekend and weekendSolveMode
    moved,                      \* weekend check: the result of moveOnWeekend
    today,                      \* feed: DateTime.now(), in ticks since 1970-01-01
    schedules,                  \* feed: the list getSchedules() resolved with
    feed,                       \* feed: generateIcal after its await: pc, i (the
                                \*   schedule the loop is at), events (the calendar's
                                \*   events in the order of createEvent), ops (the
                                \*   helpers called, in program order), result
    count,                      \* count check: the result of getCount
    frequency,                  \* frequency check: the string resolved
    resolved                    \* frequency check: the results of both copies of
                                \*   resolveFrequency

fetchVars == << CLEAR_CACHE_ON_ERROR, isHandlingMigrationError, cache, call, uncaught >>

classifyVars == << failure, category >>

weekendVars == << date, recurringData, moved >>

feedVars == << today, schedules, feed >>

helperVars == << count, frequency, resolved >>

vars == << fetchVars, classifyVars, weekendVars, feedVars, helperVars >>

Pending == [kind |-> "pending", message |-> ""]

\* `return data`
Data == [kind |-> "data", message |-> ""]

\* `throw new Error(message)`
Failed(message) == [kind |-> "error", message |-> message]

EmptyDir == [exists |-> TRUE, populated |-> FALSE]

CacheStates ==
    { [exists |-> FALSE, populated |-> FALSE], EmptyDir, [exists |-> TRUE, populated |-> TRUE] }

(***************************************************************************)
(* clearCache and the synchronous start of getSchedules                    *)
(***************************************************************************)

\* the outcomes the file system allows clearCache on directory d
ClearOutcomes(d) ==
    IF d.exists THEN {"ok", "rm_throws", "rm_throws_partial", "mkdir_throws"}
    ELSE {"ok", "mkdir_throws"}

\* faulty variant: rmSync returns without having removed the directory's content
clearCacheKeepingFiles(d, outcome) ==
    IF d.exists /\ outcome \in {"rm_throws", "rm_throws_partial"}
    THEN [dir |-> d, ops |-> <<"rmSync!">>, threw |-> RmError]
    ELSE IF outcome = "mkdir_throws"
    THEN [dir |-> d, ops |-> <<"mkdirSync!">>, threw |-> MkdirError]
    ELSE [dir |-> [exists |-> TRUE, populated |-> d.populated],
          ops |-> <<"mkdirSync">>, threw |-> NoFailure]

\* clearCache(): the directory afterwards, what it did (a throwing rmSync, or how
\* mkdirSync ended) and what it threw.  rmSync is called when the directory exists.
clearCache(d, outcome) ==
    IF d.exists /\ outcome = "rm_throws"
    THEN [dir |-> d, ops |-> <<"rmSync!">>, threw |-> RmError]
    ELSE IF d.exists /\ outcome = "rm_throws_partial"
    THEN [dir |-> [exists |-> TRUE, populated |-> FALSE], ops |-> <<"rmSync!">>,
          threw |-> RmError]
    ELSE IF outcome = "mkdir_throws"
    THEN [dir |-> [exists |-> FALSE, populated |-> FALSE],
          ops |-> <<"mkdirSync!">>, threw |-> MkdirError]
    ELSE [dir |-> EmptyDir, ops |-> <<"mkdirSync">>, threw |-> NoFailure]

\* getSchedules up to its first await: the directory is created when absent
\* (mkdirSync may throw), then actualApi.init is called
StartOutcomes(d) == IF d.exists THEN {"ok"} ELSE {"ok", "mkdir_throws"}

startAttempt(d, outcome) ==
    IF d.exists
    THEN [dir |-> d, ops |-> <<"init">>, threw |-> NoFailure]
    ELSE IF outcome = "mkdir_throws"
    THEN [dir |-> d, ops |-> << >>, threw |-> MkdirError]
    ELSE [dir |-> EmptyDir, ops |-> <<"init">>, threw |-> NoFailure]

(***************************************************************************)
(* The catch block of getSchedules                                         *)
(***************************************************************************)

userFriendlyMessage(errorCategory, errorMessage) ==
    CASE errorCategory = "NETWORK_ERROR" ->
           "Network connection failed. Check if your remote server can reach the Actual Budget server."
      [] errorCategory = "AUTHENTICATION_ERROR" ->
           "Authentication failed. Check your ACTUAL_MAIN_PASSWORD and ACTUAL_SYNC_PASSWORD."
      [] errorCategory = "SYNC_ID_ERROR" ->
           "Invalid Sync ID. Check your ACTUAL_SYNC_ID setting."
      [] errorCategory = "SERVER_URL_ERROR" ->
           "Server URL issue. Check your ACTUAL_SERVER URL and ensure it's accessible."
      [] errorCategory = "BUDGET_DOWNLOAD_ERROR" ->
           "Failed to download budget data. This could be a server issue or corrupted cache."
      [] errorCategory = "MIGRATION_ERROR" ->
           "Database version mismatch detected. This usually happens when the Actual server and client are on different versions. Cache will be cleared and retried automatically."
      [] OTHER ->
           "Connection error: " \o (IF errorMessage # "" THEN errorMessage
                                    ELSE "Unknown error occurred")

\* faulty variant: the clear's failure is left out of the message
clearFailedMessageWithoutClearError(error, clearError) ==
    "Failed to fetch schedules: " \o Diagnosis(error).errorMessage

clearFailedMessage(error, clearError) ==
    "Failed to fetch schedules: " \o Diagnosis(error).errorMessage
        \o " (cache clear also failed: " \o Diagnosis(clearError).errorMessage \o ")"

\* faulty variant: no finally block
finallyKeepFlag(flag) == flag

\* the `finally { isHandlingMigrationError = false }` of both handlers
finallyResetFlag(flag) == FALSE

\* faulty variant: the recursive call is `getSchedules(true)`
retryArgumentTrue == TRUE

\* the argument of the recursive call, `getSchedules(false)`
retryArgument == FALSE

\* faulty variant: the branch is taken for a failure of any category
shouldClearAndRetryAnyCategory(error, retryOnMigrationError, clearCacheOnError) ==
    /\ retryOnMigrationError
    /\ clearCacheOnError = "true"

\* faulty variant: the branch is taken whatever CLEAR_CACHE_ON_ERROR is
shouldClearAndRetryUnconfigured(error, retryOnMigrationError, clearCacheOnError) ==
    /\ Diagnosis(error).migrationErrorDetected
    /\ retryOnMigrationError

\* the condition of the clear-and-retry branch
shouldClearAndRetry(error, retryOnMigrationError, clearCacheOnError) ==
    /\ Diagnosis(error).migrationErrorDetected
    /\ retryOnMigrationError
    /\ clearCacheOnError = "true"

\* catch (error) { ... } of call c, the file system answering clearCache with `outcome`.
\* The recursive call is returned, not awaited: its start runs inside the try, the
\* finally runs when it has returned its promise, and a later rejection of that
\* promise is the rejection of this call.
catchBlock(c, error, outcome) ==
    LET me      == call[c]
        seen    == Diagnosis(error)
        caught  == <<"catch:" \o seen.errorCategory>>
        errors  == me.errors \o <<error>>
    IN  IF shouldClearAndRetry(error, me.retryOnMigrationError, CLEAR_CACHE_ON_ERROR)
        THEN LET flagSet == TRUE
                 cleared == clearCache(cache, outcome)
             IN  IF cleared.threw = NoFailure
                 THEN LET again == startAttempt(cleared.dir, "ok")
                      IN  /\ cache' = again.dir
                          /\ call' = [call EXCEPT ![c] =
                                 [pc |-> "init",
                                  retryOnMigrationError |-> retryArgument,
                                  ops |-> me.ops \o caught \o <<"clearCache">>
                                            \o cleared.ops \o again.ops,
                                  errors |-> errors,
                                  result |-> Pending]]
                          /\ isHandlingMigrationError' = finallyResetFlag(flagSet)
                 ELSE /\ cache' = cleared.dir
                      /\ call' = [call EXCEPT ![c] =
                             [pc |-> "failed",
                              retryOnMigrationError |-> me.retryOnMigrationError,
                              ops |-> me.ops \o caught \o <<"clearCache">> \o cleared.ops,
                              errors |-> errors,
                              result |-> Failed(clearFailedMessage(error, cleared.threw))]]
                      /\ isHandlingMigrationError' = finallyResetFlag(FALSE)
        ELSE /\ outcome = "ok"
             /\ cache' = cache
             /\ call' = [call EXCEPT ![c] =
                    [pc |-> "failed",
                     retryOnMigrationError |-> me.retryOnMigrationError,
                     ops |-> me.ops \o caught,
                     errors |-> errors,
                     result |-> Failed(userFriendlyMessage(seen.errorCategory,
                                                           seen.errorMessage))]]
             /\ isHandlingMigrationError' = isHandlingMigrationError

(***************************************************************************)
(* The fetch protocol: getSchedules and the uncaught-exception handler.    *)
(* JavaScript runs each handler to completion, so every action below is    *)
(* one callback from the point it is resumed to its next await or its end. *)
(***************************************************************************)

NotClassifying == /\ failure = NoFailure
                  /\ category = "none"

NoDate == /\ date = 0
          /\ recurringData = [skipWeekend |-> FALSE, weekendSolveMode |-> "after"]
          /\ moved = [kind |-> "none", date |-> 0]

\* generateIcal has not been called
NoFeed == /\ today = 0
          /\ schedules = << >>
          /\ feed = [pc |-> "idle", i |-> 0, events |-> << >>, ops |-> << >>,
                     result |-> [kind |-> "none", scheduleCount |-> 0, message |-> ""]]

NotResolved == [kind |-> "none", value |-> "", message |-> ""]

\* getCount and resolveFrequency have not been called on their own
NoHelper == /\ count = -1
            /\ frequency = ""
            /\ resolved = [ical |-> NotResolved, helper |-> NotResolved]

NewCall ==
    [pc |-> "idle", retryOnMigrationError |-> TRUE, ops |-> << >>,
     errors |-> << >>, result |-> Pending]

Init ==
    /\ CLEAR_CACHE_ON_ERROR \in {"true", "false"}
    /\ isHandlingMigrationError = FALSE
    /\ cache \in CacheStates
    /\ call = [c \in Calls |-> NewCall]
    /\ uncaught = [count |-> 0, last |-> NoFailure, ops |-> << >>,
                  raised |-> NoFailure]
    /\ NotClassifying
    /\ NoDate
    /\ NoFeed
    /\ NoHelper

\* the file system's answers that matter to the catch block of call c
CatchOutcomes(c, error, d) ==
    IF shouldClearAndRetry(error, call[c].retryOnMigrationError, CLEAR_CACHE_ON_ERROR)
    THEN ClearOutcomes(d) ELSE {"ok"}

\* getSchedules() is called (retryOnMigrationError defaults to true) and runs to
\* `await actualApi.init(...)`; a throwing mkdirSync lands in the catch block
StartCall(c) ==
    /\ call[c].pc = "idle"
    /\ \E outcome \in StartOutcomes(cache) :
         LET started == startAttempt(cache, outcome)
         IN  IF started.threw = NoFailure
             THEN /\ cache' = started.dir
                  /\ call' = [call EXCEPT ![c].pc = "init", ![c].ops = started.ops]
                  /\ UNCHANGED isHandlingMigrationError
             ELSE \E cleared \in CatchOutcomes(c, started.threw, started.dir) :
                      catchBlock(c, started.threw, cleared)
    /\ UNCHANGED << CLEAR_CACHE_ON_ERROR, uncaught, classifyVars, weekendVars, feedVars,
                    helperVars >>

\* actualApi.init resolved: actualApi.downloadBudget is called
InitResolved(c) ==
    /\ call[c].pc = "init"
    /\ call' = [call EXCEPT ![c].pc = "download"]
    /\ UNCHANGED << CLEAR_CACHE_ON_ERROR, isHandlingMigrationError, cache, uncaught,
                    classifyVars, weekendVars, feedVars,
                    helperVars >>

\* actualApi.downloadBudget resolved (the budget now lies in the data directory,
\* when there is one): actualApi.runQuery is called
DownloadResolved(c) ==
    /\ call[c].pc = "download"
    /\ cache' = IF cache.exists THEN [exists |-> TRUE, populated |-> TRUE] ELSE cache
    /\ call' = [call EXCEPT ![c].pc = "query"]
    /\ UNCHANGED << CLEAR_CACHE_ON_ERROR, isHandlingMigrationError, uncaught,
                    classifyVars, weekendVars, feedVars,
                    helperVars >>

\* actualApi.runQuery resolved: `return data`
QueryResolved(c) ==
    /\ call[c].pc = "query"
    /\ call' = [call EXCEPT ![c].pc = "done", ![c].result = Data]
    /\ UNCHANGED << CLEAR_CACHE_ON_ERROR, isHandlingMigrationError, cache, uncaught,
                    classifyVars, weekendVars, feedVars,
                    helperVars >>

\* the awaited backend call rejected with `error`: the catch block runs
BackendRejected(c) ==
    /\ call[c].pc \in {"init", "download", "query"}
    /\ \E error \in BackendErrors : \E outcome \in CatchOutcomes(c, error, cache) :
           catchBlock(c, error, outcome)
    /\ UNCHANGED << CLEAR_CACHE_ON_ERROR, uncaught, classifyVars, weekendVars, feedVars,
                    helperVars >>

\* faulty variant: the safety net lets the failure of clearCache out
catchClearErrorRethrowing(clearError) == clearError

\* `catch (clearError) { logger.error(...) }` of the safety net: what leaves it
catchClearError(clearError) == NoFailure

\* process.on('uncaughtException', ...): the handler returns normally whatever
\* clearCache does, so nothing is re-raised
uncaughtExceptionHandler(error, outcome) ==
    IF /\ Diagnosis(error).migrationErrorDetected
       /\ ~isHandlingMigrationError
       /\ CLEAR_CACHE_ON_ERROR = "true"
    THEN LET flagSet == TRUE
             cleared == clearCache(cache, outcome)
         IN  /\ cache' = cleared.dir
             /\ uncaught' = [count |-> uncaught.count + 1, last |-> error,
                             ops |-> <<"clearCache">> \o cleared.ops,
                             raised |-> catchClearError(cleared.threw)]
             /\ isHandlingMigrationError' = finallyResetFlag(flagSet)
    ELSE /\ outcome = "ok"
         /\ uncaught' = [count |-> uncaught.count + 1, last |-> error, ops |-> << >>,
                         raised |-> NoFailure]
         /\ UNCHANGED << cache, isHandlingMigrationError >>

UncaughtException ==
    /\ uncaught.count < MaxUncaught
    /\ \E error \in UncaughtErrors :
           \E outcome \in IF Diagnosis(error).migrationErrorDetected
                           THEN ClearOutcomes(cache) ELSE {"ok"} :
               uncaughtExceptionHandler(error, outcome)
    /\ UNCHANGED << CLEAR_CACHE_ON_ERROR, call, classifyVars, weekendVars, feedVars,
                    helperVars >>

Next ==
    \/ \E c \in Calls : StartCall(c)
    \/ \E c \in Calls : InitResolved(c)
    \/ \E c \in Calls : DownloadResolved(c)
    \/ \E c \in Calls : QueryResolved(c)
    \/ \E c \in Calls : BackendRejected(c)
    \/ UncaughtException

Spec == Init /\ [][Next]_vars

(***************************************************************************)
(* The classifier on its own: every failure value built from one word per  *)
(* keyword group in the message, a stack text, and the three shapes a      *)
(* thrown value can have.                                                  *)
(***************************************************************************)

\* the word that puts a group's keywords into a text
GroupWords ==
    << "Migration", "Network", "Password", "Sync ID", "Server URL", "download-budget" >>

RECURSIVE JoinWords(_, _)
JoinWords(picked, k) ==
    IF k > Len(GroupWords) THEN ""
    ELSE LET rest == JoinWords(picked, k + 1)
         IN  IF k \in picked
             THEN IF rest = "" THEN GroupWords[k] ELSE GroupWords[k] \o " " \o rest
             ELSE rest

\* every combination of the groups' words, and a message with no keyword at all
MessageTexts ==
    { JoinWords(picked, 1) : picked \in SUBSET (1..Len(GroupWords)) }
        \cup { "Request failed" }

StackTexts ==
    { "", "Error at run (api.js)", "Error at migrate (update.js)",
      "Error at request (network.js)", "Error at downloadBudget (api.js)",
      "Error at authenticate (auth.js)", "Error at getSyncId (sync.js)",
      "Error at resolve (server-url.js)" }

ClassifierInputs ==
    { FailureValue("Error", m, st, "", "", "", "", "") : m \in MessageTexts, st \in StackTexts }
    \cup { FailureValue("object", m, st, "", "", "", "", "") :
             m \in MessageTexts, st \in StackTexts }
    \cup { FailureValue("object", "", "", "", m, "", "", "") : m \in MessageTexts }
    \cup { FailureValue("primitive", "", "", "", "", "", "", m) : m \in MessageTexts }

FetchIdle ==
    /\ CLEAR_CACHE_ON_ERROR = "true"
    /\ isHandlingMigrationError = FALSE
    /\ cache = EmptyDir
    /\ call = [c \in Calls |-> NewCall]
    /\ uncaught = [count |-> 0, last |-> NoFailure, ops |-> << >>,
                  raised |-> NoFailure]

InitClassify ==
    /\ failure \in ClassifierInputs
    /\ category = "none"
    /\ FetchIdle
    /\ NoDate
    /\ NoFeed
    /\ NoHelper

Classify ==
    /\ category = "none"
    /\ category' = categorizeError(failure)
    /\ UNCHANGED << failure, fetchVars, weekendVars, feedVars, helperVars >>

NextClassify == Classify

SpecClassify == InitClassify /\ [][NextClassify]_vars

(***************************************************************************)
(* moveOnWeekend on its own.  A date is a whole day, counted from          *)
(* 1970-01-01, a Thursday; luxon's weekday is 1 (Monday) to 7 (Sunday).    *)
(***************************************************************************)

\* the last day number drawn as a projected date
MaxDay == 20

weekday(d) == ((d + 3) % 7) + 1

\* faulty variant: `before` moves a Sunday back by one day only
moveOnWeekendOneDayBack(d, rd) ==
    IF ~rd.skipWeekend THEN [kind |-> "date", date |-> d]
    ELSE IF weekday(d) # 6 /\ weekday(d) # 7 THEN [kind |-> "date", date |-> d]
    ELSE IF rd.weekendSolveMode = "after"
    THEN [kind |-> "date", date |-> d + (IF weekday(d) = 6 THEN 2 ELSE 1)]
    ELSE IF rd.weekendSolveMode = "before"
    THEN [kind |-> "date", date |-> d - 1]
    ELSE [kind |-> "error", date |-> d]

\* faulty variant: `after` moves a Saturday by three days
moveOnWeekendSaturdayToTuesday(d, rd) ==
    IF ~rd.skipWeekend THEN [kind |-> "date", date |-> d]
    ELSE IF weekday(d) # 6 /\ weekday(d) # 7 THEN [kind |-> "date", date |-> d]
    ELSE IF rd.weekendSolveMode = "after"
    THEN [kind |-> "date", date |-> d + (IF weekday(d) = 6 THEN 3 ELSE 1)]
    ELSE IF rd.weekendSolveMode = "before"
    THEN [kind |-> "date", date |-> d + (IF weekday(d) = 6 THEN -1 ELSE -2)]
    ELSE [kind |-> "error", date |-> d]

\* faulty variant: weekendSolveMode is validated before the weekday is looked at
moveOnWeekendValidatingFirst(d, rd) ==
    IF ~rd.skipWeekend THEN [kind |-> "date", date |-> d]
    ELSE IF rd.weekendSolveMode \notin {"after", "before"} THEN [kind |-> "error", date |-> d]
    ELSE IF weekday(d) # 6 /\ weekday(d) # 7 THEN [kind |-> "date", date |-> d]
    ELSE IF rd.weekendSolveMode = "after"
    THEN [kind |-> "date", date |-> d + (IF weekday(d) = 6 THEN 2 ELSE 1)]
    ELSE [kind |-> "date", date |-> d + (IF weekday(d) = 6 THEN -1 ELSE -2)]

\* moveOnWeekend(date) of a schedule whose _date is rd
moveOnWeekend(d, rd) ==
    IF ~rd.skipWeekend THEN [kind |-> "date", date |-> d]
    ELSE IF weekday(d) # 6 /\ weekday(d) # 7 THEN [kind |-> "date", date |-> d]
    ELSE IF rd.weekendSolveMode = "after"
    THEN [kind |-> "date", date |-> d + (IF weekday(d) = 6 THEN 2 ELSE 1)]
    ELSE IF rd.weekendSolveMode = "before"
    THEN [kind |-> "date", date |-> d + (IF weekday(d) = 6 THEN -1 ELSE -2)]
    ELSE [kind |-> "error", date |-> d]   \* throw new Error('Invalid weekendSolveMode')

WeekendSolveModes == {"after", "before", "nearest"}

InitWeekend ==
    /\ date \in 0..MaxDay
    /\ recurringData \in [skipWeekend : BOOLEAN, weekendSolveMode : WeekendSolveModes]
    /\ moved = [kind |-> "none", date |-> 0]
    /\ FetchIdle
    /\ NotClassifying
    /\ NoFeed
    /\ NoHelper

MoveOnWeekend ==
    /\ moved.kind = "none"
    /\ moved' = moveOnWeekend(date, recurringData)
    /\ UNCHANGED << date, recurringData, fetchVars, classifyVars, feedVars, helperVars >>

NextWeekend == MoveOnWeekend

SpecWeekend == InitWeekend /\ [][NextWeekend]_vars

(***************************************************************************)
(* Dates of the feed.  A date is a whole day, counted from 1970-01-01;     *)
(* the calendar is the Gregorian one luxon and rrule compute with.         *)
(***************************************************************************)

IsLeapYear(y) == (y % 4 = 0 /\ y % 100 # 0) \/ y % 400 = 0

DaysInYear(y) == IF IsLeapYear(y) THEN 366 ELSE 365

DaysInMonth(y, m) ==
    IF m = 2 THEN (IF IsLeapYear(y) THEN 29 ELSE 28)
    ELSE IF m \in {4, 6, 9, 11} THEN 30 ELSE 31

RECURSIVE CivilYear(_, _)
CivilYear(d, y) ==
    IF d < DaysInYear(y) THEN [year |-> y, dayOfYear |-> d]
    ELSE CivilYear(d - DaysInYear(y), y + 1)

RECURSIVE CivilMonth(_, _, _)
CivilMonth(y, r, m) ==
    IF r < DaysInMonth(y, m) THEN [year |-> y, month |-> m, day |-> r + 1]
    ELSE CivilMonth(y, r - DaysInMonth(y, m), m + 1)

\* year, month and day of the month of day number d
Civil(d) == LET cy == CivilYear(d, 1970) IN CivilMonth(cy.year, cy.dayOfYear, 1)

RECURSIVE DaysBeforeYear(_)
DaysBeforeYear(y) == IF y <= 1970 THEN 0 ELSE DaysBeforeYear(y - 1) + DaysInYear(y - 1)

RECURSIVE DaysBeforeMonth(_, _)
DaysBeforeMonth(y, m) == IF m <= 1 THEN 0 ELSE DaysBeforeMonth(y, m - 1) + DaysInMonth(y, m - 1)

\* the day number of a calendar date
DayNumber(y, m, dom) == DaysBeforeYear(y) + DaysBeforeMonth(y, m) + dom - 1

Min(a, b) == IF a < b THEN a ELSE b

\* luxon's DateTime.plus({ [unit]: n }) for the unit windowMap gives a frequency:
\* months and years keep the day of the month, clamped to the month's length
plus(d, freq, n) ==
    IF freq = "daily" THEN d + n
    ELSE IF freq = "weekly" THEN d + 7 * n
    ELSE LET c == Civil(d)
             months == IF freq = "monthly" THEN (c.month - 1) + n ELSE (c.month - 1) + 12 * n
             y == c.year + (months \div 12)
             m == (months % 12) + 1
         IN  DayNumber(y, m, Min(c.day, DaysInMonth(y, m)))

\* an optional value of ruleOptions
Undefined == [defined |-> FALSE, value |-> 0]

Defined(v) == [defined |-> TRUE, value |-> v]

\* the k-th candidate of a rule of interval 1 anchored at dtstart: rrule keeps the
\* anchor's day of the month (and month, for a yearly rule) and skips the periods
\* that have no such day
candidate(freq, dtstart, k) ==
    IF freq = "RRule.DAILY" THEN [exists |-> TRUE, day |-> dtstart + k]
    ELSE IF freq = "RRule.WEEKLY" THEN [exists |-> TRUE, day |-> dtstart + 7 * k]
    ELSE LET c == Civil(dtstart)
             months == IF freq = "RRule.MONTHLY" THEN (c.month - 1) + k
                       ELSE (c.month - 1) + 12 * k
             y == c.year + (months \div 12)
             m == (months % 12) + 1
         IN  IF c.day <= DaysInMonth(y, m)
             THEN [exists |-> TRUE, day |-> DayNumber(y, m, c.day)]
             ELSE [exists |-> FALSE, day |-> 0]

\* rule.all() from the k-th candidate on: ends after `left` more dates when a
\* count is given, and at the first date after `until` when an end is given
RECURSIVE ruleAll(_, _, _, _, _)
ruleAll(freq, dtstart, k, left, until) ==
    IF left.defined /\ left.value <= 0 THEN << >>
    ELSE LET cand == candidate(freq, dtstart, k)
         IN  IF ~cand.exists THEN ruleAll(freq, dtstart, k + 1, left, until)
             ELSE IF until.defined /\ cand.day > until.value THEN << >>
             ELSE <<cand.day>> \o
                  ruleAll(freq, dtstart, k + 1,
                          IF left.defined THEN Defined(left.value - 1) ELSE left, until)

(***************************************************************************)
(* generateIcal after `await getSchedules()`                               *)
(***************************************************************************)

\* the instants of a day that DateTime.now() is told apart by
TicksPerDay == 2

\* faulty variant: an unsupported string is taken as daily
resolveFrequencyDefaultingToDaily(f) ==
    IF f = "yearly" THEN [kind |-> "value", value |-> "RRule.YEARLY", message |-> ""]
    ELSE IF f = "monthly" THEN [kind |-> "value", value |-> "RRule.MONTHLY", message |-> ""]
    ELSE IF f = "weekly" THEN [kind |-> "value", value |-> "RRule.WEEKLY", message |-> ""]
    ELSE [kind |-> "value", value |-> "RRule.DAILY", message |-> ""]

\* resolveFrequency of src/ical.ts
resolveFrequency(f) ==
    IF f = "yearly" THEN [kind |-> "value", value |-> "RRule.YEARLY", message |-> ""]
    ELSE IF f = "monthly" THEN [kind |-> "value", value |-> "RRule.MONTHLY", message |-> ""]
    ELSE IF f = "weekly" THEN [kind |-> "value", value |-> "RRule.WEEKLY", message |-> ""]
    ELSE IF f = "daily" THEN [kind |-> "value", value |-> "RRule.DAILY", message |-> ""]
    ELSE [kind |-> "error", value |-> "", message |-> "Invalid frequency: " \o f]

\* faulty variant: the helper answers RRule.DAILY for 'weekly'
resolveFrequencyHelperWeeklyAsDaily(f) ==
    IF f = "yearly" THEN [kind |-> "value", value |-> "RRule.YEARLY", message |-> ""]
    ELSE IF f = "monthly" THEN [kind |-> "value", value |-> "RRule.MONTHLY", message |-> ""]
    ELSE IF f = "weekly" THEN [kind |-> "value", value |-> "RRule.DAILY", message |-> ""]
    ELSE IF f = "daily" THEN [kind |-> "value", value |-> "RRule.DAILY", message |-> ""]
    ELSE [kind |-> "error", value |-> "", message |-> "Invalid frequency: " \o f]

\* resolveFrequency of src/helpers/rrule.ts
resolveFrequencyHelper(f) ==
    IF f = "yearly" THEN [kind |-> "value", value |-> "RRule.YEARLY", message |-> ""]
    ELSE IF f = "monthly" THEN [kind |-> "value", value |-> "RRule.MONTHLY", message |-> ""]
    ELSE IF f = "weekly" THEN [kind |-> "value", value |-> "RRule.WEEKLY", message |-> ""]
    ELSE IF f = "daily" THEN [kind |-> "value", value |-> "RRule.DAILY", message |-> ""]
    ELSE [kind |-> "error", value |-> "", message |-> "Invalid frequency: " \o f]

\* Math.ceil(a / b) for a >= 0 and b > 0
Ceil(a, b) == (a + b - 1) \div b

\* getEndDate()
getEndDate(rd) ==
    IF rd.endMode = "never" THEN Undefined
    ELSE IF rd.endMode = "after_n_occurrences"
    THEN Defined(plus(rd.start, rd.frequency, rd.endOccurrences))
    ELSE rd.endDate

\* faulty variant: the rule is always anchored at next_date
getStartDateAlwaysNextDate(rd, nextDate) == nextDate

\* getStartDate()
getStartDate(rd, nextDate) == IF rd.endMode = "never" THEN nextDate ELSE rd.start

\* faulty variant: the count is rounded down
getCountRoundedDown(rd, nextDate, now) ==
    IF rd.endMode = "never"
    THEN LET nextDateDiff == now - nextDate * TicksPerDay
         IN  IF nextDateDiff < 0
             THEN IF rd.frequency = "daily" THEN Defined(30)
                  ELSE IF rd.frequency = "weekly" THEN Defined(4)
                  ELSE IF rd.frequency = "monthly" THEN Defined(12)
                  ELSE Defined(2)
             ELSE IF rd.frequency = "daily" THEN Defined(nextDateDiff \div TicksPerDay)
                  ELSE IF rd.frequency = "weekly"
                  THEN Defined(nextDateDiff \div (7 * TicksPerDay))
                  ELSE IF rd.frequency = "monthly"
                  THEN Defined(nextDateDiff \div (30 * TicksPerDay))
                  ELSE Defined(nextDateDiff \div (365 * TicksPerDay))
    ELSE IF rd.endMode = "after_n_occurrences" THEN Defined(rd.endOccurrences)
    ELSE Undefined

\* getCount(); now is `today` in ticks, nextDate a day
getCount(rd, nextDate, now) ==
    IF rd.endMode = "never"
    THEN LET nextDateDiff == now - nextDate * TicksPerDay   \* in ticks
         IN  IF nextDateDiff < 0
             THEN IF rd.frequency = "daily" THEN Defined(30)
                  ELSE IF rd.frequency = "weekly" THEN Defined(4)
                  ELSE IF rd.frequency = "monthly" THEN Defined(12)
                  ELSE Defined(2)
             ELSE IF rd.frequency = "daily" THEN Defined(Ceil(nextDateDiff, TicksPerDay))
                  ELSE IF rd.frequency = "weekly"
                  THEN Defined(Ceil(nextDateDiff, 7 * TicksPerDay))
                  ELSE IF rd.frequency = "monthly"
                  THEN Defined(Ceil(nextDateDiff, 30 * TicksPerDay))
                  ELSE Defined(Ceil(nextDateDiff, 365 * TicksPerDay))
    ELSE IF rd.endMode = "after_n_occurrences" THEN Defined(rd.endOccurrences)
    ELSE Undefined

\* .filter((date) => DateTime.fromJSDate(date) >= nextDate)
filterDates(dates, nextDate) == SelectSeq(dates, LAMBDA d : d >= nextDate)

\* faulty variant: an occurrence that lands on the day of the event before it
\* gets no event of its own
RECURSIVE mapDatesMergingSameDay(_, _, _)
mapDatesMergingSameDay(i, rd, dates) ==
    IF dates = << >> THEN [events |-> << >>, ops |-> << >>, threw |-> ""]
    ELSE LET effective == moveOnWeekend(Head(dates), rd)
         IN  IF effective.kind = "error"
             THEN [events |-> << >>, ops |-> <<"moveOnWeekend">>,
                   threw |-> "Invalid weekendSolveMode"]
             ELSE LET rest == mapDatesMergingSameDay(i, rd, Tail(dates))
                      merged == /\ rest.events # << >>
                                /\ rest.events[1].start = effective.date
                  IN  [events |-> IF merged THEN rest.events
                                  ELSE <<[schedule |-> i, start |-> effective.date]>>
                                           \o rest.events,
                       ops |-> <<"moveOnWeekend", "createEvent">> \o rest.ops,
                       threw |-> rest.threw]

\* .map((date) => calendar.createEvent({ start: moveOnWeekend(date) ... })) of
\* schedule i: the events created until moveOnWeekend throws
RECURSIVE mapDates(_, _, _)
mapDates(i, rd, dates) ==
    IF dates = << >> THEN [events |-> << >>, ops |-> << >>, threw |-> ""]
    ELSE LET effective == moveOnWeekend(Head(dates), rd)
         IN  IF effective.kind = "error"
             THEN [events |-> << >>, ops |-> <<"moveOnWeekend">>,
                   threw |-> "Invalid weekendSolveMode"]
             ELSE LET rest == mapDates(i, rd, Tail(dates))
                  IN  [events |-> <<[schedule |-> i, start |-> effective.date]>>
                                      \o rest.events,
                       ops |-> <<"moveOnWeekend", "createEvent">> \o rest.ops,
                       threw |-> rest.threw]

\* the longest list of schedules getSchedules() resolves with
MaxSchedules == 2

\* the values of DateTime.now(): just before and exactly at midnight of Friday
\* 9 January 1970, on Monday 12 January after midnight, and on 10 February
Nows == { 8 * TicksPerDay - 1, 8 * TicksPerDay, 11 * TicksPerDay + 1, 40 * TicksPerDay }

\* next_date: Friday 9, Saturday 10 and Monday 12 January 1970
NextDates == {8, 9, 11}

\* frequency: absent, the four supported strings, and an unsupported one
Frequencies == {"", "daily", "weekly", "monthly", "yearly", "hourly"}

EndModes == {"never", "after_n_occurrences", "on_date"}

WeekendPolicies ==
    { [skipWeekend |-> FALSE, weekendSolveMode |-> "nearest"],
      [skipWeekend |-> TRUE, weekendSolveMode |-> "after"],
      [skipWeekend |-> TRUE, weekendSolveMode |-> "before"],
      [skipWeekend |-> TRUE, weekendSolveMode |-> "nearest"] }

\* a schedule record of the query result: a rule that ends has started a week
\* before next_date, ends after 3 occurrences or 9 days after next_date
Schedule(nextDate, f, endMode, policy) ==
    [next_date |-> nextDate,
     _date |-> [frequency |-> f,
                start |-> IF endMode = "never" THEN nextDate ELSE nextDate - 7,
                endMode |-> endMode,
                endOccurrences |-> IF endMode = "after_n_occurrences" THEN 3 ELSE 0,
                endDate |-> IF endMode = "on_date" THEN Defined(nextDate + 9)
                            ELSE Undefined,
                skipWeekend |-> policy.skipWeekend,
                weekendSolveMode |-> policy.weekendSolveMode]]

ScheduleInputs ==
    { Schedule(d, f, m, p) : d \in NextDates, f \in Frequencies, m \in EndModes,
                             p \in WeekendPolicies }

\* the schedules that follow the first one of a list
FollowingSchedules ==
    { Schedule(9, "", "never", [skipWeekend |-> TRUE, weekendSolveMode |-> "before"]),
      Schedule(9, "daily", "never", [skipWeekend |-> TRUE, weekendSolveMode |-> "after"]),
      Schedule(8, "hourly", "never", [skipWeekend |-> FALSE, weekendSolveMode |-> "after"]),
      Schedule(9, "weekly", "on_date",
               [skipWeekend |-> TRUE, weekendSolveMode |-> "nearest"]) }

RECURSIVE ScheduleLists(_)
ScheduleLists(n) ==
    IF n = 0 THEN { << >> }
    ELSE IF n = 1 THEN { <<s>> : s \in ScheduleInputs }
    ELSE { list \o <<s>> : list \in ScheduleLists(n - 1), s \in FollowingSchedules }

\* a getSchedules() call has returned its data
FetchDone ==
    /\ CLEAR_CACHE_ON_ERROR = "true"
    /\ isHandlingMigrationError = FALSE
    /\ cache = [exists |-> TRUE, populated |-> TRUE]
    /\ call = [c \in Calls |->
                 IF c = 1 THEN [NewCall EXCEPT !.pc = "done", !.ops = <<"init">>,
                                               !.result = Data]
                 ELSE NewCall]
    /\ uncaught = [count |-> 0, last |-> NoFailure, ops |-> << >>,
                  raised |-> NoFailure]

InitFeed ==
    /\ schedules \in UNION { ScheduleLists(n) : n \in 0..MaxSchedules }
    /\ today = 0
    /\ feed = [pc |-> "idle", i |-> 0, events |-> << >>, ops |-> << >>,
               result |-> [kind |-> "none", scheduleCount |-> 0, message |-> ""]]
    /\ FetchDone
    /\ NotClassifying
    /\ NoDate
    /\ NoHelper

\* faulty variant: the single event of a schedule without frequency goes through
\* moveOnWeekend
processScheduleAdjustingSingleEvent(i, schedule, now) ==
    LET rd == schedule._date
        nextDate == schedule.next_date
    IN  IF rd.frequency = ""
        THEN LET mapped == mapDates(i, rd, <<nextDate>>)
             IN  [events |-> mapped.events, ops |-> mapped.ops, threw |-> mapped.threw]
        ELSE LET freq == resolveFrequency(rd.frequency)
             IN  IF freq.kind = "error"
                 THEN [events |-> << >>, ops |-> <<"resolveFrequency">>,
                       threw |-> freq.message]
                 ELSE LET dates == ruleAll(freq.value, getStartDate(rd, nextDate), 0,
                                           getCount(rd, nextDate, now), getEndDate(rd))
                          mapped == mapDates(i, rd, filterDates(dates, nextDate))
                      IN  [events |-> mapped.events,
                           ops |-> <<"resolveFrequency", "RRule">> \o mapped.ops,
                           threw |-> mapped.threw]

\* one turn of `for (const schedule of schedules)`, for schedule i: the events it
\* creates, the helpers it calls, and the message of what it throws
processSchedule(i, schedule, now) ==
    LET rd == schedule._date
        nextDate == schedule.next_date
    IN  IF rd.frequency = ""
        THEN [events |-> <<[schedule |-> i, start |-> nextDate]>>,
              ops |-> <<"createEvent">>, threw |-> ""]
        ELSE LET freq == resolveFrequency(rd.frequency)
             IN  IF freq.kind = "error"
                 THEN [events |-> << >>, ops |-> <<"resolveFrequency">>,
                       threw |-> freq.message]
                 ELSE LET dates == ruleAll(freq.value, getStartDate(rd, nextDate), 0,
                                           getCount(rd, nextDate, now), getEndDate(rd))
                          mapped == mapDates(i, rd, filterDates(dates, nextDate))
                      IN  [events |-> mapped.events,
                           ops |-> <<"resolveFrequency", "RRule">> \o mapped.ops,
                           threw |-> mapped.threw]

\* the event added when there are no schedules
placeholderEvent(now) == [schedule |-> 0, start |-> now \div TicksPerDay]

\* faulty variant: the placeholder is counted as a schedule
returnCalendarCountingPlaceholder(scheduleCount) ==
    [kind |-> "document", message |-> "",
     scheduleCount |-> IF scheduleCount = 0 THEN 1 ELSE scheduleCount]

\* `return { calendarString: calendar.toString(), scheduleCount: ... }`
returnCalendar(scheduleCount) ==
    [kind |-> "document", scheduleCount |-> scheduleCount, message |-> ""]

\* getSchedules() resolved with `schedules`: generateIcal reads the clock and
\* either returns the placeholder calendar or enters the loop
SchedulesResolved ==
    /\ feed.pc = "idle"
    /\ \E now \in Nows :
         /\ today' = now
         /\ feed' = IF Len(schedules) = 0
                    THEN [pc |-> "done", i |-> 0, events |-> <<placeholderEvent(now)>>,
                          ops |-> <<"createEvent">>, result |-> returnCalendar(0)]
                    ELSE [feed EXCEPT !.pc = "loop", !.i = 1]
    /\ UNCHANGED << schedules, fetchVars, classifyVars, weekendVars, helperVars >>

\* one turn of the loop; what it throws leaves generateIcal at once
ProcessSchedule ==
    /\ feed.pc = "loop"
    /\ feed.i <= Len(schedules)
    /\ LET turn == processSchedule(feed.i, schedules[feed.i], today)
       IN  feed' = IF turn.threw = ""
                   THEN [feed EXCEPT !.i = feed.i + 1,
                                     !.events = feed.events \o turn.events,
                                     !.ops = feed.ops \o turn.ops]
                   ELSE [feed EXCEPT !.pc = "failed",
                                     !.events = feed.events \o turn.events,
                                     !.ops = feed.ops \o turn.ops,
                                     !.result = [kind |-> "error", scheduleCount |-> 0,
                                                 message |-> turn.threw]]
    /\ UNCHANGED << today, schedules, fetchVars, classifyVars, weekendVars, helperVars >>

\* the loop is over: the calendar and the number of schedules are returned
ReturnCalendar ==
    /\ feed.pc = "loop"
    /\ feed.i > Len(schedules)
    /\ feed' = [feed EXCEPT !.pc = "done", !.result = returnCalendar(Len(schedules))]
    /\ UNCHANGED << today, schedules, fetchVars, classifyVars, weekendVars, helperVars >>

NextFeed ==
    \/ SchedulesResolved
    \/ ProcessSchedule
    \/ ReturnCalendar

SpecFeed == InitFeed /\ [][NextFeed]_vars

(***************************************************************************)
(* resolveFrequency on its own, both copies on the same string             *)
(***************************************************************************)

FrequencyWords ==
    { "yearly", "monthly", "weekly", "daily", "hourly", "biweekly", "quarterly",
      "invalid", "Yearly", "MONTHLY", "Weekly", "DAILY", "year", "day", "" }

FrequencyAffixes == { "", " ", "s" }

FrequencyStrings ==
    { before \o word \o after :
        before \in FrequencyAffixes, word \in FrequencyWords, after \in FrequencyAffixes }

InitFrequency ==
    /\ frequency \in FrequencyStrings
    /\ resolved = [ical |-> NotResolved, helper |-> NotResolved]
    /\ count = -1
    /\ FetchIdle
    /\ NotClassifying
    /\ NoDate
    /\ NoFeed

ResolveFrequency ==
    /\ resolved.ical.kind = "none"
    /\ resolved' = [ical |-> resolveFrequency(frequency),
                    helper |-> resolveFrequencyHelper(frequency)]
    /\ UNCHANGED << frequency, count, fetchVars, classifyVars, weekendVars, feedVars >>

NextFrequency == ResolveFrequency

SpecFrequency == InitFrequency /\ [][NextFrequency]_vars

(***************************************************************************)
(* getCount on its own, for a schedule that never ends                     *)
(***************************************************************************)

\* the last day DateTime.now() is drawn from
MaxCountDay == 740

InitCount ==
    /\ schedules \in { <<Schedule(d, f, "never",
                                  [skipWeekend |-> FALSE, weekendSolveMode |-> "after"])>> :
                         d \in {0, 10}, f \in {"daily", "weekly", "monthly", "yearly"} }
    /\ today \in 0..(MaxCountDay * TicksPerDay)
    /\ feed = [pc |-> "idle", i |-> 0, events |-> << >>, ops |-> << >>,
               result |-> [kind |-> "none", scheduleCount |-> 0, message |-> ""]]
    /\ NoHelper
    /\ FetchIdle
    /\ NotClassifying
    /\ NoDate

GetCount ==
    /\ count = -1
    /\ count' = getCount(schedules[1]._date, schedules[1].next_date, today).value
    /\ UNCHANGED << frequency, resolved, feedVars, fetchVars, classifyVars, weekendVars >>

NextCount == GetCount

SpecCount == InitCount /\ [][NextCount]_vars

(***************************************************************************)
(* Properties of the fetch protocol (specification Spec)                   *)
(***************************************************************************)

RECURSIVE Count(_, _)
Count(op, ops) ==
    IF ops = << >> THEN 0
    ELSE (IF Head(ops) = op THEN 1 ELSE 0) + Count(op, Tail(ops))

\* fetch attempts of call c: its calls of actualApi.init
Attempts(c) == Count("init", call[c].ops)

\* cache clears of call c: its calls of clearCache
Clears(c) == Count("clearCache", call[c].ops)

Has(c, op) == \E i \in 1..Len(call[c].ops) : call[c].ops[i] = op

LastOp(c) == call[c].ops[Len(call[c].ops)]

ClearThrew(c) == Has(c, "rmSync!") \/ Has(c, "mkdirSync!")

Terminal(c) == call[c].pc \in {"done", "failed"}

InFlight(c) == call[c].pc \in {"init", "download", "query"}

\* C1: one top-level getSchedules() call makes at most two fetch attempts and at
\* most one cache clear, and ends with a schedule list or a failure; the second
\* attempt runs with retryOnMigrationError = false, and once it has failed, also
\* with a MIGRATION failure, nothing more is attempted or cleared.
C1_AtMostTwoAttempts ==
    \A c \in Calls :
        /\ Attempts(c) <= 2
        /\ Clears(c) <= 1
        /\ Attempts(c) = 2 => ~call[c].retryOnMigrationError /\ Clears(c) = 1
        /\ Len(call[c].errors) <= 2
        /\ Len(call[c].errors) = 2 => call[c].pc = "failed" /\ Attempts(c) = 2
        /\ call[c].pc = "done" <=> call[c].result = Data
        /\ call[c].pc = "failed" <=> call[c].result.kind = "error"
        /\ call[c].pc = "failed" =>
               LastOp(c) \in {"rmSync!", "mkdirSync!"}
                   \/ LastOp(c) = "catch:" \o Diagnosis(call[c].errors[Len(call[c].errors)]).errorCategory

\* the retry itself failed with a MIGRATION failure and the call has ended
C1_Witness ==
    \E c \in Calls :
        /\ call[c].pc = "failed"
        /\ Attempts(c) = 2
        /\ Clears(c) = 1
        /\ call[c].ops[Len(call[c].ops)] = "catch:MIGRATION_ERROR"
        /\ call[c].ops[Len(call[c].ops) - 1] = "init"

\* the first attempt of call c failed with a MIGRATION failure while the retry
\* was allowed and cache clearing enabled, and clearCache returned normally
FirstMigrationCleared(c) ==
    /\ call[c].errors # << >>
    /\ Diagnosis(call[c].errors[1]).errorCategory = "MIGRATION_ERROR"
    /\ CLEAR_CACHE_ON_ERROR = "true"
    /\ Has(c, "clearCache")
    /\ ~ClearThrew(c)

\* the operations of a call whose first attempt was answered by a clear and a retry
ClearedAndRetried(ops) ==
    LET prefix == <<"init", "catch:MIGRATION_ERROR", "clearCache", "mkdirSync", "init">>
    IN  /\ Len(ops) >= Len(prefix)
        /\ SubSeq(ops, 1, Len(prefix)) = prefix
        /\ Len(ops) <= Len(prefix) + 1
        /\ Len(ops) = Len(prefix) + 1 =>
               SubSeq(ops[Len(ops)], 1, Len("catch:")) = "catch:"

\* C2: a MIGRATION failure of the first attempt, with the clear succeeding, is
\* answered by exactly one cache clear, which has removed and recreated the
\* directory (it is there and empty) when the one retry calls actualApi.init;
\* a retry that succeeds gives the caller the schedule list.
C2_OneClearThenOneRetry ==
    /\ [](\A c \in Calls :
            FirstMigrationCleared(c) =>
                /\ Clears(c) = 1
                /\ Attempts(c) = 2
                /\ ClearedAndRetried(call[c].ops)
                /\ Len(call[c].errors) = 1 <=> call[c].pc # "failed"
                /\ call[c].pc = "done" => call[c].result = Data)
    /\ [][\A c \in Calls :
            FirstMigrationCleared(c)' /\ ~Has(c, "clearCache") =>
                /\ cache' = EmptyDir
                /\ call'[c].pc = "init"
                /\ call'[c].result = Pending
                /\ Attempts(c)' = Attempts(c) + 1]_vars

\* the retry that followed the clear returned the schedule list
C2_Witness ==
    \E c \in Calls :
        /\ FirstMigrationCleared(c)
        /\ call[c].pc = "done"
        /\ call[c].result = Data

\* C3 (as claimed): when the first attempt fails with a MIGRATION failure, the
\* clear succeeds and the retry fails too, the message of the failure the caller
\* gets contains the text of the first attempt's failure.
C3_RetryFailureCarriesOriginalText ==
    \A c \in Calls :
        FirstMigrationCleared(c) /\ call[c].pc = "failed" =>
            Includes(call[c].result.message, Diagnosis(call[c].errors[1]).errorMessage)

\* C4: a clearCache that throws while a MIGRATION failure is handled ends the
\* call: no retry is made, and the failure's one message contains the extracted
\* text of the original failure and that of the clear's failure.
C4_ClearFailureIsFatal ==
    \A c \in Calls :
        ClearThrew(c) =>
            /\ call[c].pc = "failed"
            /\ Attempts(c) = 1
            /\ Clears(c) = 1
            /\ Len(call[c].errors) = 1
            /\ call[c].result.kind = "error"
            /\ Includes(call[c].result.message, Diagnosis(call[c].errors[1]).errorMessage)
            /\ Has(c, "rmSync!") =>
                   Includes(call[c].result.message, Diagnosis(RmError).errorMessage)
            /\ Has(c, "mkdirSync!") =>
                   Includes(call[c].result.message, Diagnosis(MkdirError).errorMessage)

\* rmSync threw while the first attempt's MIGRATION failure was handled
C4_Witness ==
    \E c \in Calls :
        /\ Has(c, "rmSync!")
        /\ call[c].pc = "failed"
        /\ call[c].errors = <<ErrMigration>>

\* how the message of each category other than MIGRATION begins
TemplateStart(errorCategory) ==
    CASE errorCategory = "NETWORK_ERROR"         -> "Network connection failed."
      [] errorCategory = "AUTHENTICATION_ERROR"  -> "Authentication failed."
      [] errorCategory = "SYNC_ID_ERROR"         -> "Invalid Sync ID."
      [] errorCategory = "SERVER_URL_ERROR"      -> "Server URL issue."
      [] errorCategory = "BUDGET_DOWNLOAD_ERROR" -> "Failed to download budget data."
      [] errorCategory = "UNKNOWN_ERROR"         -> "Connection error: "

OtherCategories ==
    { "NETWORK_ERROR", "AUTHENTICATION_ERROR", "SYNC_ID_ERROR", "SERVER_URL_ERROR",
      "BUDGET_DOWNLOAD_ERROR", "UNKNOWN_ERROR" }

\* C5: an attempt that fails with a category other than MIGRATION is the call's
\* last: no clear and no further attempt follow, and the call has failed with the
\* message of that category, the UNKNOWN message being "Connection error: "
\* followed by the failure's extracted text.
C5_OtherCategoriesFailAtOnce ==
    \A c \in Calls : \A i \in 1..Len(call[c].errors) :
        LET error         == call[c].errors[i]
            errorCategory == Diagnosis(error).errorCategory
            message       == call[c].result.message
        IN  errorCategory # "MIGRATION_ERROR" =>
                /\ errorCategory \in OtherCategories
                /\ i = Len(call[c].errors)
                /\ LastOp(c) = "catch:" \o errorCategory
                /\ Attempts(c) <= i
                /\ Clears(c) = i - 1
                /\ call[c].pc = "failed"
                /\ call[c].result.kind = "error"
                /\ SubSeq(message, 1, Len(TemplateStart(errorCategory)))
                       = TemplateStart(errorCategory)
                /\ errorCategory = "UNKNOWN_ERROR" =>
                       message = "Connection error: " \o Diagnosis(error).errorMessage

\* a SERVER_URL failure has ended a call at its first attempt, the retry allowed
\* and cache clearing enabled
C5_Witness ==
    \E c \in Calls :
        /\ call[c].pc = "failed"
        /\ Attempts(c) = 1
        /\ Clears(c) = 0
        /\ Len(call[c].errors) = 1
        /\ Diagnosis(call[c].errors[1]).errorCategory = "SERVER_URL_ERROR"
        /\ CLEAR_CACHE_ON_ERROR = "true"

\* C6 (as claimed): when the first attempts of two calls in flight together both
\* fail with MIGRATION failures, the guard flag keeps the second from clearing the
\* cache too: as long as neither call has ended, the two have cleared it at most
\* once between them.
C6_GuardStopsSecondClear ==
    \A a \in Calls : \A b \in Calls \ {a} :
        /\ call[a].errors # << >>
        /\ call[b].errors # << >>
        /\ Diagnosis(call[a].errors[1]).errorCategory = "MIGRATION_ERROR"
        /\ Diagnosis(call[b].errors[1]).errorCategory = "MIGRATION_ERROR"
        /\ ~Terminal(a)
        /\ ~Terminal(b)
        => Clears(a) + Clears(b) <= 1

\* C7: the guard flag is false whenever no failure handler is executing, which is
\* every state here; so it is false again after every clearing attempt, of the
\* fetch path or of the uncaught-exception handler, that succeeded or threw.
C7_FlagResetAfterClear ==
    isHandlingMigrationError = FALSE

\* the fetch path has cleared the cache with success and with a throw, and the
\* uncaught-exception handler has cleared it
C7_Witness ==
    /\ \E c \in Calls : FirstMigrationCleared(c)
    /\ \E c \in Calls : ClearThrew(c)
    /\ uncaught.ops # << >>
    /\ isHandlingMigrationError = FALSE

\* the cache directory loses content or is removed
Destroyed == \/ cache.populated /\ ~cache'.populated
             \/ cache.exists /\ ~cache'.exists

\* call c's catch block has received a MIGRATION failure with the retry allowed
\* and has called clearCache
FetchPathClears(c) ==
    /\ call[c].retryOnMigrationError
    /\ Len(call'[c].errors) = Len(call[c].errors) + 1
    /\ Diagnosis(call'[c].errors[Len(call'[c].errors)]).errorCategory = "MIGRATION_ERROR"
    /\ Clears(c)' = Clears(c) + 1

\* the uncaught-exception handler has received a MIGRATION failure and has
\* called clearCache
SafetyNetClears ==
    /\ uncaught'.count = uncaught.count + 1
    /\ Diagnosis(uncaught'.last).errorCategory = "MIGRATION_ERROR"
    /\ uncaught'.ops # << >>
    /\ uncaught'.ops[1] = "clearCache"

\* C8: the cache directory's content is destroyed only by a step that handles a
\* failure classified MIGRATION while CLEAR_CACHE_ON_ERROR is 'true' (in the fetch
\* path only on an attempt with retryOnMigrationError = true); every other step,
\* successful fetches and failures of the other categories included, leaves the
\* cache as it is.
C8_DestroyedOnlyOnMigration ==
    [][Destroyed =>
          /\ CLEAR_CACHE_ON_ERROR = "true"
          /\ (\E c \in Calls : FetchPathClears(c)) \/ SafetyNetClears]_vars

\* the fetch path has cleared the cache, the directory is there and empty, and
\* another call has returned its data
C8_Witness ==
    \E c \in Calls :
        /\ FirstMigrationCleared(c)
        /\ call[c].pc = "init"
        /\ cache = EmptyDir
        /\ \E d \in Calls \ {c} : call[d].pc = "done"

(***************************************************************************)
(* Properties of the classifier (specification SpecClassify)               *)
(***************************************************************************)

PrecedenceOrder ==
    << "MIGRATION_ERROR", "NETWORK_ERROR", "AUTHENTICATION_ERROR", "SYNC_ID_ERROR",
       "SERVER_URL_ERROR", "BUDGET_DOWNLOAD_ERROR" >>

AnyIn(text, keywords) == \E k \in keywords : Includes(text, k)

\* A keyword group is present in a failure when its keywords occur in the text
\* the classifier reads for it: message and stack for MIGRATION and
\* BUDGET_DOWNLOAD, the message for the other four.
GroupPresent(g, e) ==
    LET message == toLowerCase(extractErrorMessage(e))
        stack   == toLowerCase(extractErrorStack(e))
    IN  CASE g = "MIGRATION_ERROR" ->
               AnyIn(message \o " " \o stack,
                     { migrationKeywords[k] : k \in 1..Len(migrationKeywords) })
          [] g = "NETWORK_ERROR" -> AnyIn(message, {"network", "connection", "timeout"})
          [] g = "AUTHENTICATION_ERROR" -> AnyIn(message, {"auth", "password", "credential"})
          [] g = "SYNC_ID_ERROR" -> Includes(message, "sync") /\ Includes(message, "id")
          [] g = "SERVER_URL_ERROR" ->
               Includes(message, "server") /\ AnyIn(message, {"url", "host"})
          [] g = "BUDGET_DOWNLOAD_ERROR" ->
               AnyIn(message, {"download-budget", "downloadbudget"})
                   \/ AnyIn(stack, {"download-budget", "downloadbudget"})

FirstPresent(e) ==
    IF \A k \in 1..Len(PrecedenceOrder) : ~GroupPresent(PrecedenceOrder[k], e)
    THEN "UNKNOWN_ERROR"
    ELSE LET first == CHOOSE k \in 1..Len(PrecedenceOrder) :
                         /\ GroupPresent(PrecedenceOrder[k], e)
                         /\ \A j \in 1..(k - 1) : ~GroupPresent(PrecedenceOrder[j], e)
         IN  PrecedenceOrder[first]

\* C9: categorizeError returns the first keyword group present in the failure,
\* in the order MIGRATION, NETWORK, AUTHENTICATION, SYNC_ID, SERVER_URL,
\* BUDGET_DOWNLOAD, and UNKNOWN when none is; a failure whose message or stack
\* contains "migration" is MIGRATION whatever else it contains.
C9_FixedPrecedence ==
    category # "none" =>
        /\ category = FirstPresent(failure)
        /\ Includes(toLowerCase(extractErrorMessage(failure) \o " "
                                    \o extractErrorStack(failure)), "migration")
               => category = "MIGRATION_ERROR"

\* a message with both "sync" and "migration", and every other group's word
\* too, has been classified MIGRATION
C9_Witness ==
    /\ category = "MIGRATION_ERROR"
    /\ failure.kind = "Error"
    /\ failure.message = JoinWords(1..Len(GroupWords), 1)
    /\ Includes(toLowerCase(failure.message), "sync")
    /\ Includes(toLowerCase(failure.message), "migration")

(***************************************************************************)
(* Properties of moveOnWeekend (specification SpecWeekend)                 *)
(***************************************************************************)

\* C10: with skipWeekend, moveOnWeekend moves a Saturday by +2 days (after) or -1
\* day (before), a Sunday by +1 day (after) or -2 days (before), and leaves Monday
\* to Friday alone, so with either valid mode the result is a Monday-to-Friday
\* date; without skipWeekend the date is returned unchanged on every weekday.
C10_WeekendMoved ==
    moved.kind # "none" =>
        LET rd == recurringData
            wd == weekday(date)
        IN  /\ ~rd.skipWeekend => moved = [kind |-> "date", date |-> date]
            /\ rd.skipWeekend /\ wd \in 1..5 => moved = [kind |-> "date", date |-> date]
            /\ rd.skipWeekend /\ rd.weekendSolveMode \in {"after", "before"} =>
                   /\ moved.kind = "date"
                   /\ weekday(moved.date) \in 1..5
                   /\ moved.date - date =
                        CASE wd = 6 /\ rd.weekendSolveMode = "after"  -> 2
                          [] wd = 6 /\ rd.weekendSolveMode = "before" -> -1
                          [] wd = 7 /\ rd.weekendSolveMode = "after"  -> 1
                          [] wd = 7 /\ rd.weekendSolveMode = "before" -> -2
                          [] OTHER -> 0

\* a Sunday has been moved back to the Friday before it
C10_Witness ==
    /\ moved.kind = "date"
    /\ recurringData.skipWeekend
    /\ recurringData.weekendSolveMode = "before"
    /\ weekday(date) = 7
    /\ moved.date = date - 2
    /\ weekday(moved.date) = 5

(***************************************************************************)
(* Properties of the feed (specification SpecFeed)                         *)
(***************************************************************************)

\* the events of schedule i, in the order they were added
EventsOf(i) == SelectSeq(feed.events, LAMBDA e : e.schedule = i)

\* C11: the effective date of every event emitted for a schedule, the date after
\* the weekend adjustment, is on or after the schedule's next_date.
C11_EffectiveDateNotBeforeNextDate ==
    \A k \in 1..Len(feed.events) :
        LET e == feed.events[k]
        IN  e.schedule > 0 => e.start >= schedules[e.schedule].next_date

(***************************************************************************)
(* Properties of resolveFrequency (specification SpecFrequency)            *)
(***************************************************************************)

SupportedFrequencies ==
    [yearly |-> "RRule.YEARLY", monthly |-> "RRule.MONTHLY", weekly |-> "RRule.WEEKLY",
     daily |-> "RRule.DAILY"]

\* C12: resolveFrequency returns the matching constant for each of yearly, monthly,
\* weekly and daily, four distinct constants, and fails with 'Invalid frequency:
\* <string>' for every other string; the exported helper and the copy inside the
\* feed generator give the same result for every input.
C12_ResolveFrequency ==
    resolved.ical.kind # "none" =>
        /\ Cardinality({ resolveFrequency(f).value : f \in DOMAIN SupportedFrequencies }) = 4
        /\ IF frequency \in DOMAIN SupportedFrequencies
           THEN /\ resolved.ical.kind = "value"
                /\ resolved.ical.value = SupportedFrequencies[frequency]
           ELSE /\ resolved.ical.kind = "error"
                /\ resolved.ical.message = "Invalid frequency: " \o frequency
        /\ resolved.helper = resolved.ical

\* both copies have rejected a string that differs from a supported one in case
C12_Witness ==
    /\ frequency = "DAILY"
    /\ resolved.ical = [kind |-> "error", value |-> "", message |-> "Invalid frequency: DAILY"]
    /\ resolved.helper.kind = "error"

(***************************************************************************)
(* Properties of getCount (specification SpecCount)                        *)
(***************************************************************************)

\* today minus next_date, in ticks
TicksSinceNext == today - schedules[1].next_date * TicksPerDay

FutureCounts == [daily |-> 30, weekly |-> 4, monthly |-> 12, yearly |-> 2]

PeriodDays == [daily |-> 1, weekly |-> 7, monthly |-> 30, yearly |-> 365]

\* C13: with endMode = never the occurrence cap is 30, 4, 12, 2 (daily, weekly,
\* monthly, yearly) when next_date is strictly in the future, and the number of
\* days d since next_date, divided by 1, 7, 30, 365, rounded up, when next_date is
\* today or in the past; so a daily schedule gets 10 for d = 10.
C13_OccurrenceCap ==
    count # -1 =>
        LET f == schedules[1]._date.frequency
            period == PeriodDays[f] * TicksPerDay
        IN  /\ TicksSinceNext < 0 => count = FutureCounts[f]
            /\ TicksSinceNext >= 0 =>
                   /\ count * period >= TicksSinceNext
                   /\ (count - 1) * period < TicksSinceNext
            /\ (f = "daily" /\ TicksSinceNext = 10 * TicksPerDay) => count = 10

\* a daily schedule whose next_date is exactly 10 days before now has got 10
C13_Witness ==
    /\ schedules[1]._date.frequency = "daily"
    /\ schedules[1].next_date = 10
    /\ TicksSinceNext = 10 * TicksPerDay
    /\ count = 10

\* C14: when the fetch returned no schedule the document has exactly one event,
\* the placeholder dated now, and scheduleCount is 0; when it returned some, no
\* placeholder is added and scheduleCount is the number of schedules fetched,
\* whatever the number of events.
C14_PlaceholderAndScheduleCount ==
    feed.pc = "done" =>
        /\ feed.result.kind = "document"
        /\ IF Len(schedules) = 0
           THEN /\ feed.events = <<[schedule |-> 0, start |-> today \div TicksPerDay]>>
                /\ feed.result.scheduleCount = 0
           ELSE /\ \A k \in 1..Len(feed.events) : feed.events[k].schedule \in 1..Len(schedules)
                /\ feed.result.scheduleCount = Len(schedules)

\* the placeholder calendar has been returned
C14_Witness ==
    /\ schedules = << >>
    /\ feed.pc = "done"
    /\ Len(feed.events) = 1
    /\ feed.result.scheduleCount = 0

\* the loop is at a schedule whose _date has no frequency
AtSingleEventSchedule ==
    /\ feed.pc = "loop"
    /\ feed.i <= Len(schedules)
    /\ schedules[feed.i]._date.frequency = ""

\* C15: a schedule whose recurrence description has no frequency yields exactly
\* one event, dated at its next_date with no weekend adjustment, whatever its
\* endMode, skipWeekend and weekendSolveMode are, and reaches neither frequency
\* resolution nor recurrence expansion.
C15_SingleEventAtNextDate ==
    [][AtSingleEventSchedule =>
         /\ feed'.pc = "loop"
         /\ feed'.i = feed.i + 1
         /\ feed'.events = feed.events \o
                <<[schedule |-> feed.i, start |-> schedules[feed.i].next_date]>>
         /\ feed'.ops = feed.ops \o <<"createEvent">>]_vars

\* a schedule without frequency, due on a Saturday, with skipWeekend and a rule
\* that ends, has got its one event on that Saturday
C15_Witness ==
    \E i \in 1..Len(schedules) :
        /\ feed.i > i
        /\ schedules[i]._date.frequency = ""
        /\ schedules[i]._date.skipWeekend
        /\ schedules[i]._date.endMode = "after_n_occurrences"
        /\ weekday(schedules[i].next_date) = 6
        /\ EventsOf(i) = <<[schedule |-> i, start |-> schedules[i].next_date]>>

\* the dates of schedule i that pass the filter, before the weekend adjustment
KeptDates(i) ==
    LET rd == schedules[i]._date
        nextDate == schedules[i].next_date
    IN  filterDates(ruleAll(resolveFrequency(rd.frequency).value,
                            getStartDate(rd, nextDate), 0,
                            getCount(rd, nextDate, today), getEndDate(rd)),
                    nextDate)

InvalidFrequency(i) ==
    schedules[i]._date.frequency \notin {"", "yearly", "monthly", "weekly", "daily"}

Recurring(i) == schedules[i]._date.frequency \in {"yearly", "monthly", "weekly", "daily"}

\* schedule i recurs and one of its kept dates is a Saturday or a Sunday
WeekendKept(i) ==
    /\ Recurring(i)
    /\ \E k \in 1..Len(KeptDates(i)) : weekday(KeptDates(i)[k]) \in {6, 7}

InvalidWeekendSolveModeMet(i) ==
    /\ schedules[i]._date.skipWeekend
    /\ schedules[i]._date.weekendSolveMode \notin {"after", "before"}
    /\ WeekendKept(i)

InvalidConfiguration(i) == InvalidFrequency(i) \/ InvalidWeekendSolveModeMet(i)

\* the fetch state generateIcal started from: data returned, nothing cleared
FetchUntouched ==
    /\ cache = [exists |-> TRUE, populated |-> TRUE]
    /\ call[1].ops = <<"init">>
    /\ \A c \in Calls : c # 1 => call[c] = NewCall
    /\ uncaught.ops = << >>
    /\ isHandlingMigrationError = FALSE

\* C16: an invalid-configuration failure raised while the feed is assembled (an
\* unsupported frequency string, or an invalid weekendSolveMode met on a weekend
\* date) leaves generateIcal at once: no document and no schedule count are
\* returned even when earlier schedules were processed, the cache is not cleared
\* and no further fetch attempt is made.
C16_InvalidConfigurationPropagates ==
    /\ FetchUntouched
    /\ feed.pc \in {"loop", "done"} =>
           \A i \in 1..Len(schedules) : i < feed.i => ~InvalidConfiguration(i)
    /\ feed.pc = "done" => \A i \in 1..Len(schedules) : ~InvalidConfiguration(i)
    /\ feed.pc = "failed" =>
           /\ InvalidConfiguration(feed.i)
           /\ feed.result.kind = "error"
           /\ feed.result.message =
                  IF InvalidFrequency(feed.i)
                  THEN "Invalid frequency: " \o schedules[feed.i]._date.frequency
                  ELSE "Invalid weekendSolveMode"

\* the second schedule has an unsupported frequency: generateIcal has failed
\* after the first schedule's events were added
C16_Witness ==
    /\ feed.pc = "failed"
    /\ feed.i = 2
    /\ Len(EventsOf(1)) > 0
    /\ feed.result = [kind |-> "error", scheduleCount |-> 0,
                      message |-> "Invalid frequency: hourly"]
    /\ FetchUntouched

(***************************************************************************)
(* Properties of the safety net (specification Spec)                       *)
(***************************************************************************)

\* C17: the uncaught-exception safety net never re-raises, whatever failure it
\* receives: when the failure is classified MIGRATION, the guard flag is not set
\* and CLEAR_CACHE_ON_ERROR is 'true' it clears the cache once and swallows a
\* failure of that clear; in every other case it clears nothing; it never starts
\* a fetch attempt.
C17_SafetyNetNeverRaises ==
    [][uncaught'.count = uncaught.count + 1 =>
         /\ uncaught'.raised = NoFailure
         /\ call' = call
         /\ IF /\ Diagnosis(uncaught'.last).migrationErrorDetected
               /\ ~isHandlingMigrationError
               /\ CLEAR_CACHE_ON_ERROR = "true"
            THEN Count("clearCache", uncaught'.ops) = 1
            ELSE uncaught'.ops = << >> /\ cache' = cache]_vars

\* rmSync threw inside the safety net's clearCache and the handler returned
C17_Witness ==
    /\ uncaught.count = 1
    /\ uncaught.last = ErrMigration
    /\ uncaught.ops = <<"clearCache", "rmSync!">>
    /\ uncaught.raised = NoFailure

(***************************************************************************)
(* Properties of the feed, continued (specification SpecFeed)              *)
(***************************************************************************)

\* C18: within one feed request every event of schedule i is added before any
\* event of schedule j when i precedes j in the query result, and the events of
\* one schedule are added in non-decreasing order of effective date: the weekend
\* adjustment never reorders two occurrences of a schedule.
C18_EventsInOrder ==
    \A k \in 1..(Len(feed.events) - 1) :
        LET e == feed.events[k]
            next == feed.events[k + 1]
        IN  /\ e.schedule <= next.schedule
            /\ e.schedule = next.schedule => e.start <= next.start

\* two schedules have got their events, the first one two on the same day: a
\* Saturday and the Sunday after it, both moved
C18_Witness ==
    /\ feed.pc = "done"
    /\ Len(schedules) = 2
    /\ Len(EventsOf(2)) > 0
    /\ schedules[1]._date.skipWeekend
    /\ \E k \in 1..(Len(EventsOf(1)) - 1) : EventsOf(1)[k].start = EventsOf(1)[k + 1].start

(***************************************************************************)
(* Properties of the classifier, continued (specification SpecClassify)    *)
(***************************************************************************)

\* the keywords of group g occur in the text
GroupIn(g, text) ==
    CASE g = "MIGRATION_ERROR" ->
           AnyIn(text, { migrationKeywords[k] : k \in 1..Len(migrationKeywords) })
      [] g = "NETWORK_ERROR" -> AnyIn(text, {"network", "connection", "timeout"})
      [] g = "AUTHENTICATION_ERROR" -> AnyIn(text, {"auth", "password", "credential"})
      [] g = "SYNC_ID_ERROR" -> Includes(text, "sync") /\ Includes(text, "id")
      [] g = "SERVER_URL_ERROR" -> Includes(text, "server") /\ AnyIn(text, {"url", "host"})
      [] g = "BUDGET_DOWNLOAD_ERROR" -> AnyIn(text, {"download-budget", "downloadbudget"})

MessageOf(e) == toLowerCase(extractErrorMessage(e))

StackOf(e) == toLowerCase(extractErrorStack(e))

\* NETWORK, AUTHENTICATION, SYNC_ID, SERVER_URL
MessageGroups == 2..5

\* the keywords of the k-th group are in the stack of e and not in its message,
\* and e has no keyword of a group of higher precedence
OnlyInStack(k, e) ==
    /\ GroupIn(PrecedenceOrder[k], StackOf(e))
    /\ ~GroupIn(PrecedenceOrder[k], MessageOf(e))
    /\ \A h \in 1..(k - 1) :
           ~GroupIn(PrecedenceOrder[h], MessageOf(e) \o " " \o StackOf(e))

\* C19 as stated: every category's keywords are matched against the message and
\* the stack together, so a failure whose NETWORK, AUTHENTICATION, SYNC_ID or
\* SERVER_URL keywords are only in its stack is classified as that category.
C19_StackOnlyKeywordsClassified ==
    category # "none" =>
        \A k \in MessageGroups : OnlyInStack(k, failure) => category = PrecedenceOrder[k]

\* C19 amended: the keywords of NETWORK, AUTHENTICATION, SYNC_ID and SERVER_URL
\* are matched against the extracted message only (MIGRATION and BUDGET_DOWNLOAD
\* against message and stack), so a failure whose keywords for one of these four
\* are only in its stack is not classified as that category.
C19_StackOnlyKeywordsIgnored ==
    category # "none" =>
        \A k \in MessageGroups :
            /\ category = PrecedenceOrder[k] => GroupIn(PrecedenceOrder[k], MessageOf(failure))
            /\ OnlyInStack(k, failure) => category # PrecedenceOrder[k]

\* an Error whose message has no keyword and whose stack names network.js has
\* been classified UNKNOWN
C19_Witness ==
    /\ failure.kind = "Error"
    /\ MessageOf(failure) = "request failed"
    /\ OnlyInStack(2, failure)
    /\ category = "UNKNOWN_ERROR"

(***************************************************************************)
(* Properties of the feed, weekend policy (specification SpecFeed)         *)
(***************************************************************************)

InvalidWeekendSolveMode(i) == schedules[i]._date.weekendSolveMode \notin {"after", "before"}

\* the events schedule i gets when none of its kept dates is moved
UnmovedEvents(i) ==
    [k \in 1..Len(KeptDates(i)) |-> [schedule |-> i, start |-> KeptDates(i)[k]]]

\* C20: weekendSolveMode is read only for a kept date that falls on a Saturday or
\* a Sunday of a schedule with skipWeekend = true: a recurring schedule with an
\* invalid weekendSolveMode whose kept dates all fall on Monday to Friday, or
\* whose skipWeekend is false, gets its events unchanged and raises nothing; with
\* skipWeekend = true and a kept Saturday or Sunday it fails with 'Invalid
\* weekendSolveMode'.
C20_WeekendSolveModeReadOnWeekendOnly ==
    \A i \in 1..Len(schedules) :
        (Recurring(i) /\ InvalidWeekendSolveMode(i)) =>
            /\ (feed.pc \in {"loop", "done", "failed"} /\ i < feed.i) =>
                   /\ ~(schedules[i]._date.skipWeekend /\ WeekendKept(i))
                   /\ EventsOf(i) = UnmovedEvents(i)
            /\ (feed.pc = "failed" /\ i = feed.i) =>
                   /\ schedules[i]._date.skipWeekend
                   /\ WeekendKept(i)
                   /\ feed.result.message = "Invalid weekendSolveMode"

\* a weekly schedule with skipWeekend and an invalid weekendSolveMode, due on
\* weekdays only, has got its events
C20_Witness ==
    \E i \in 1..Len(schedules) :
        /\ feed.pc = "done"
        /\ Recurring(i)
        /\ InvalidWeekendSolveMode(i)
        /\ schedules[i]._date.skipWeekend
        /\ Len(EventsOf(i)) > 1
        /\ EventsOf(i) = UnmovedEvents(i)

(***************************************************************************)
(* Properties of the feed, recurrence expansion (specification SpecFeed)   *)
(***************************************************************************)

\* schedule i has been through the loop without a throw
Processed(i) == feed.pc \in {"loop", "done", "failed"} /\ i < feed.i

\* the dates rule.all() gives for schedule i, before the filter
ProjectedDates(i) ==
    LET rd == schedules[i]._date
        nextDate == schedules[i].next_date
    IN  ruleAll(resolveFrequency(rd.frequency).value, getStartDate(rd, nextDate), 0,
                getCount(rd, nextDate, today), getEndDate(rd))

\* the number of dates of a sequence that are on or after day d
RECURSIVE CountFrom(_, _)
CountFrom(dates, d) ==
    IF dates = << >> THEN 0
    ELSE (IF Head(dates) >= d THEN 1 ELSE 0) + CountFrom(Tail(dates), d)

\* description.start plus endOccurrences periods of the frequency
EndBoundary(i) ==
    LET rd == schedules[i]._date
    IN  IF rd.frequency = "daily" THEN rd.start + rd.endOccurrences
        ELSE IF rd.frequency = "weekly" THEN rd.start + 7 * rd.endOccurrences
        ELSE plus(rd.start, rd.frequency, rd.endOccurrences)

\* C21: for a recurring schedule with endMode = after_n_occurrences the expansion
\* starts at description.start, not at next_date, gives at most endOccurrences
\* dates, none later than description.start plus endOccurrences periods of the
\* frequency, and only those on or after next_date are emitted; when next_date is
\* later than that end boundary no event is emitted for the schedule.
C21_AfterNOccurrences ==
    \A i \in 1..Len(schedules) :
        (/\ Processed(i)
         /\ Recurring(i)
         /\ schedules[i]._date.endMode = "after_n_occurrences") =>
            LET rd == schedules[i]._date
                dates == ProjectedDates(i)
            IN  /\ dates # << >> => dates[1] = rd.start
                /\ Len(dates) <= rd.endOccurrences
                /\ \A k \in 1..Len(dates) : dates[k] <= EndBoundary(i)
                /\ Len(EventsOf(i)) = CountFrom(dates, schedules[i].next_date)
                /\ schedules[i].next_date > EndBoundary(i) => EventsOf(i) = << >>

\* a weekly rule of three occurrences that started a week before next_date has
\* given three dates and two events
C21_Witness ==
    \E i \in 1..Len(schedules) :
        /\ Processed(i)
        /\ schedules[i]._date.frequency = "weekly"
        /\ schedules[i]._date.endMode = "after_n_occurrences"
        /\ schedules[i]._date.start < schedules[i].next_date
        /\ Len(ProjectedDates(i)) = 3
        /\ Len(EventsOf(i)) = 2

\* C22: for a recurring schedule the number of events added is the number of
\* projected occurrences on or after next_date: the weekend adjustment neither
\* drops an occurrence nor merges two that land on the same day; with endMode =
\* never the first projected occurrence is next_date itself and the number of
\* events is the value of the occurrence-count heuristic.
C22_OneEventPerKeptOccurrence ==
    \A i \in 1..Len(schedules) :
        (Processed(i) /\ Recurring(i)) =>
            LET rd == schedules[i]._date
                nextDate == schedules[i].next_date
                dates == ProjectedDates(i)
            IN  /\ Len(EventsOf(i)) = CountFrom(dates, nextDate)
                /\ rd.endMode = "never" =>
                       /\ dates # << >> => dates[1] = nextDate
                       /\ Len(EventsOf(i)) = getCount(rd, nextDate, today).value

\* a daily schedule that never ends, due on a Saturday, has got as many events
\* as its count, the first two on the same Monday
C22_Witness ==
    \E i \in 1..Len(schedules) :
        /\ Processed(i)
        /\ schedules[i]._date.frequency = "daily"
        /\ schedules[i]._date.endMode = "never"
        /\ schedules[i]._date.skipWeekend
        /\ schedules[i]._date.weekendSolveMode = "after"
        /\ weekday(schedules[i].next_date) = 6
        /\ Len(EventsOf(i)) = getCount(schedules[i]._date, schedules[i].next_date, today).value
        /\ Len(EventsOf(i)) > 2
        /\ EventsOf(i)[1].start = EventsOf(i)[2].start

(***************************************************************************)
(* Properties of the guard flag and the cache under concurrent calls       *)
(* (specification Spec)                                                    *)
(***************************************************************************)

\* call c is on its retry attempt, suspended on a backend call
RetrySuspended(c) == InFlight(c) /\ ~call[c].retryOnMigrationError

\* the safety net receives a MIGRATION failure while clearing is enabled
SafetyNetMeetsMigration ==
    /\ uncaught'.count = uncaught.count + 1
    /\ Diagnosis(uncaught'.last).migrationErrorDetected
    /\ CLEAR_CACHE_ON_ERROR = "true"

\* C23: the guard flag is true only inside synchronous sections: in every state
\* in which a fetch call is suspended on a backend call, the retry attempt after
\* a cache clear included, the flag is false, so the uncaught-exception safety
\* net never skips a cache clear because of the flag.
C23_FlagFalseWhileSuspended ==
    /\ [](\A c \in Calls : InFlight(c) => ~isHandlingMigrationError)
    /\ [][SafetyNetMeetsMigration =>
              /\ uncaught'.ops # << >>
              /\ uncaught'.ops[1] = "clearCache"]_vars

\* a call is suspended on its retry attempt, the flag is false, and the safety
\* net has cleared the cache
C23_Witness ==
    /\ \E c \in Calls : RetrySuspended(c) /\ Has(c, "clearCache")
    /\ ~isHandlingMigrationError
    /\ uncaught.count = 1
    /\ uncaught.ops # << >>
    /\ uncaught.ops[1] = "clearCache"

\* C24: the cache directory is never cleared while another fetch attempt is in
\* progress, between the start of its actualApi.init and the completion of its
\* query: neither another call's MIGRATION handling nor the safety net destroys
\* the cache underneath a fetch attempt.
C24_NoClearUnderAnotherAttempt ==
    [][/\ \A c \in Calls :
              Clears(c)' = Clears(c) + 1 => \A d \in Calls \ {c} : ~InFlight(d)
       /\ (uncaught'.count = uncaught.count + 1 /\ uncaught'.ops # << >>) =>
              \A d \in Calls : ~InFlight(d)]_vars

=============================================================================
